---- MODULE Spec2Model ----
(***************************************************************************)
(* State-machine model of the DualSense driver, scc/drivers/ds5drv.py.     *)
(*                                                                         *)
(* DS5Controller: the haptic feedback scheduler (feedback, clear_feedback, *)
(* the cancellable delayed clear), the pending-outputs map                 *)
(* (schedule_output, flush), the lightbar configuration (configure) and    *)
(* the report input path (input).                                          *)
(*                                                                         *)
(* DS5EvdevController: the callbacks of the gyro and touchpad devices      *)
(* (_gyro_input, _touchpad_input), the grabs of __init__ and close().      *)
(* init(): the hotplug callbacks and make_evdev_device.                    *)
(*                                                                         *)
(* Time is counted in ticks of 1/6553600 s (= 1/(0x10000*100) s), the      *)
(* coarsest unit in which both period*count/0x10000 s and the 0.02 s floor *)
(* of feedback() are whole numbers.                                        *)
(***************************************************************************)
EXTENDS Integers, Sequences, FiniteSets, TLC

\* ------------------------------------------------------------------ bounds

\* Number of feedback commands issued in one behaviour.
MaxCmds == 2
\* Number of clock steps (of Quantum ticks each) in one behaviour.
MaxSteps == 4
\* Number of configure calls in one behaviour.
MaxConfigs == 2
\* Number of raw packets passed to input in one behaviour.
MaxPackets == 2
\* Number of events one read() of an evdev device yields.
MaxBatch == 2
\* Number of devices under one syspath.
MaxDevices == 4
\* Number of hotplug and monitor reports in one behaviour.
MaxMatches == 2
\* Number of batches each sensor delivers in one behaviour.
MaxFeed == 2

\* ------------------------------------------------------- program constants

\* float(amplitude) / 0x8000
AmpNorm == 32768
\* int(normalized_amp * 0xff)
FullScale == 255
\* int(normalized_amp * 0x80)
HalfScale == 128
\* float(period) * count / 0x10000
PeriodNorm == 65536
\* max(duration, 0.02), in ticks: 0.02 s * 6553600
MinDuration == 131072
\* ctypes.c_ubyte fields hold values modulo 256
UByteMod == 256
\* bytearray(output).ljust(64, b'\x00')
PacketSize == 64
\* self.handle.interruptWrite(3, data)
OutEndpoint == 3
\* OperatingMode.DS5_MODE = 1 << 1
DS5_MODE == 2
\* PhysicalEffectControl.ENABLE_HAPTICS = 1 << 0 | 1 << 1
ENABLE_HAPTICS == 3
\* LightEffectControl.LIGHTBAR_CONTROL_ENABLE = 1 << 2
LIGHTBAR_CONTROL_ENABLE == 4

\* DualSenseHIDOutput: byte offsets of the fields used, and its size
\* (3 + 2 + 4 + 1 + 1 + 11 + 11 + 8 + 3 + 1 + 3 bytes).
OFF_operating_mode == 0
OFF_physical_effect_control == 1
OFF_light_effect_control == 2
OFF_motor_right == 3
OFF_motor_left == 4
OFF_lightbar_red == 45
OFF_lightbar_green == 46
OFF_lightbar_blue == 47
StructSize == 48
\* led_level_norm = float(led_level) / 100
LevelNorm == 100
\* int(color_norm * led_level_norm * 255)
ByteScale == 255
\* ICON_COLORS channels are counted in tenths: 0.4 is 4/10
ColorDen == 10
\* ord(data[33]) >> 7
TouchShift == 7

\* Ticks per second: 0x10000 * 100.
TicksPerSecond == PeriodNorm * 100
\* One clock step of the event loop model: 10 ms.
Quantum == TicksPerSecond \div 100
\* Ticks in one unit of period * count: 1/0x10000 s.
PeriodTicks == TicksPerSecond \div PeriodNorm

\* ------------------------------------------------------------ input sets

HapticPos == {"LEFT", "RIGHT", "BOTH"}
\* Amplitudes: 0; 200, which scales to 1 on the right motor and to 0 on the
\* left; half scale (0x4000) and full scale (0x8000).
Amplitudes == {0, 200, 16384, 32768}
\* period * count / 0x10000 lies below 0.02 s for 0 and 1310 and above it for
\* 1311, 2620 and 2622.
Periods == {0, 1310, 1311}
Counts == {1, 2}

\* led_level percentages: every level of 0..100, and one above it.
AllLevels == (0..LevelNorm) \cup {150}
\* A few led_level percentages.
SomeLevels == {50, 100}

\* Icon references, as sequences of characters ("c-3.s" stands for a name
\* such as "controller-3.svg").  << >> is an absent (None or empty) reference.
Icons == {
    << >>,
    <<"c", "o", "n", "t", "r", "o", "l", "l", "e", "r", "-", "3", ".", "s", "v", "g">>,
    <<"c", "-", "3", ".", "s">>,
    <<"c", "-", "0", ".", "s">>,
    <<"c", "-", "1", ".", "s">>,
    <<"c", "-", "2", ".", "s">>,
    <<"c", "-", "4", ".", "s">>,
    <<"c", "-", "5", ".", "s">>,
    <<"c", "-", "6", ".", "s">>,
    <<"c", "-", "7", ".", "s">>,
    <<"c", "-", "1", "2", ".", "s">>,
    <<"c", "-", "0", "3", ".", "s">>,
    <<"c", "-", "+", "2", ".", "s">>,
    <<"c", "-", " ", "3", ".", "s">>,
    <<"c", "-", "3", " ", ".", "s">>,
    <<"c", "-", "1", "_", "2", ".", "s">>,
    <<"c", "-", "3", " ", "3", ".", "s">>,
    <<"c", "-", "+", " ", "3", ".", "s">>,
    <<"c", "-", "0", "_", "3", ".", "s">>,
    <<"c", "-", "", "3", ".", "s">>,
    <<"c", "-", "x", ".", "s">>,
    <<"c", "-", ".", "s">>,
    <<"c", ".", "s">>,
    <<"4", ".", "s">>,
    <<"c", ".", "1", "-", "2", ".", "s">>,
    <<"c", "-", "3", ".", "s", ".", "b">>,
    <<"c", "-", "3">>,
    <<"c">>,
    <<"3">> }

\* A few icon references: absent, palette entries 3 and 5, and one without an
\* extension.
SomeIcons == {
    << >>,
    <<"c", "-", "3", ".", "s">>,
    <<"c", "-", "5", ".", "s">>,
    <<"c", "-", "3">> }

\* Button bits of the decoded state, as a set of the bits that are set.
Buttons == {"A", "CPADTOUCH"}
\* Values of packet byte 33: bit 7 clear (0x00, 0x7f) and set (0x80, 0xff).
TouchBytes == {0, 127, 128, 255}

None == 0

\* scc.constants: the range of a stick or pad axis.
STICK_PAD_MAX == 32767
STICK_PAD_MIN == -32768
\* TOUCH_FACTOR_X = STICK_PAD_MAX / 940.0
TouchWidth == 940
\* TOUCH_FACTOR_Y = STICK_PAD_MAX / 470.0
TouchHeight == 470
\* The factor 0.01 of GYRO_MAP, as 1/GyroDen.
GyroDen == 100
\* The axis None of GYRO_MAP.
NoAxis == "None"

Channels == {"feedback", "lightbar"}

\* Periods whose duration is below, and above, the 0.02 s floor.
SomePeriods == {0, 1311}

VARIABLES
    mapper,                 \* self.mapper is set (a consumer is registered)
    motor_left,             \* self._feedback_output.motor_left
    motor_right,            \* self._feedback_output.motor_right
    outputs,                \* self._outputs: channel -> output object
    feedback_cancel_task,   \* self._feedback_cancel_task: None or a task id
    tasks,                  \* the scheduler's tasks, by id (order of creation)
    now,                    \* the scheduler's clock, in ticks
    decoder,                \* self._decoder: state and old_state
    sched,                  \* per channel, the schedule_output calls since
                            \* the last flush: how many, the latest value,
                            \* and whether a different value was replaced
    steps,                  \* clock steps taken
    configs,                \* configure calls made
    packets,                \* packets passed to input
    last,                   \* the last operation, its inputs and its effects
    state,                  \* DS5EvdevController: self._state
    feed,                   \* the batches the gyro and touchpad devices will
                            \* deliver, and how many of them were read
    drv,                    \* init(): what was registered; the adapters the
                            \* hotplug and monitor callbacks constructed
    evdev,                  \* DS5EvdevController: its devices, their grabs,
                            \* the poller registrations, close()
    emitted                 \* the last pair a sensor callback sent: its new
                            \* state, whether self._state still is that
                            \* object, whether the main device replaced
                            \* self._state since

\* DS5Controller and the loop it runs on.
hidvars == <<motor_left, motor_right, outputs, feedback_cancel_task, tasks,
             now, decoder, sched, steps, configs, packets>>

\* DS5EvdevController and the driver's init().
evvars == <<state, feed, drv, evdev, emitted>>

vars == <<mapper, motor_left, motor_right, outputs, feedback_cancel_task,
          tasks, now, decoder, sched, steps, configs, packets, last,
          state, feed, drv, evdev, emitted>>

\* ---------------------------------------------------------------- helpers

Max(a, b) == IF a >= b THEN a ELSE b

Min(a, b) == IF a <= b THEN a ELSE b

\* int(x) of a non-negative quotient n/d: truncation.
Trunc(n, d) == n \div d

\* Assignment to a ctypes.c_ubyte field keeps the low 8 bits.
UByte(v) == v % UByteMod

\* ---------------------------------------------------- the scheduler (loop)

\* A task is pending when it was scheduled, not cancelled and not yet run.
Pending(t) == ~t.cancelled /\ ~t.fired

\* mapper.schedule(delay, callback): a new task due at now + delay.
\* issued, delay, firedAt and superseded record the task's history.
Schedule(ts, delay) ==
    Append(ts, [time |-> now + delay, delay |-> delay, issued |-> now,
                cancelled |-> FALSE, fired |-> FALSE, firedAt |-> 0,
                superseded |-> FALSE])

\* task.cancel(): the loop skips a cancelled task.
Cancel(ts, id) == [ts EXCEPT ![id].cancelled = TRUE]

\* -------------------------------------------------- outputs and the device

\* An output object: the shared self._feedback_output record (by reference),
\* or a DualSenseHIDOutput of its own with the lightbar bytes given.
FeedbackRef == [shared |-> TRUE, red |-> 0, green |-> 0, blue |-> 0]

EmptyOutputs == [c \in {} |-> FeedbackRef]

NoneScheduled ==
    [c \in Channels |-> [n |-> 0, v |-> FeedbackRef, replaced |-> FALSE]]

\* The record of one more schedule_output(output_id, output) call.
LogSchedule(sc, output_id, output) ==
    [sc EXCEPT ![output_id] =
        [n |-> Min(@.n + 1, 2), v |-> output,
         replaced |-> @.replaced \/ (@.n > 0 /\ @.v # output)]]

\* Mutant: a value already pending for the channel is kept.
ScheduleOutput_KeepFirst(outs, output_id, output) ==
    [c \in (DOMAIN outs) \cup {output_id} |->
        IF c \in DOMAIN outs THEN outs[c] ELSE output]

\* schedule_output(output_id, output): self._outputs[output_id] = output
ScheduleOutput(outs, output_id, output) ==
    [c \in (DOMAIN outs) \cup {output_id} |->
        IF c = output_id THEN output ELSE outs[c]]

\* The fields of an output object when it is read.
Fields_CommandCopy(output) ==
    IF output.shared
    THEN [operating_mode |-> DS5_MODE,
          physical_effect_control |-> ENABLE_HAPTICS,
          light_effect_control |-> 0,
          motor_right |-> FullScale, motor_left |-> HalfScale,
          lightbar_red |-> 0, lightbar_green |-> 0, lightbar_blue |-> 0]
    ELSE [operating_mode |-> DS5_MODE,
          physical_effect_control |-> 0,
          light_effect_control |-> LIGHTBAR_CONTROL_ENABLE,
          motor_right |-> 0, motor_left |-> 0,
          lightbar_red |-> output.red, lightbar_green |-> output.green,
          lightbar_blue |-> output.blue]

Fields(output) ==
    IF output.shared
    THEN [operating_mode |-> DS5_MODE,
          physical_effect_control |-> ENABLE_HAPTICS,
          light_effect_control |-> 0,
          motor_right |-> motor_right, motor_left |-> motor_left,
          lightbar_red |-> 0, lightbar_green |-> 0, lightbar_blue |-> 0]
    ELSE [operating_mode |-> DS5_MODE,
          physical_effect_control |-> 0,
          light_effect_control |-> LIGHTBAR_CONTROL_ENABLE,
          motor_right |-> 0, motor_left |-> 0,
          lightbar_red |-> output.red, lightbar_green |-> output.green,
          lightbar_blue |-> output.blue]

\* bytearray(output): the bytes of the DualSenseHIDOutput structure.
ByteArray(f) ==
    [i \in 1..StructSize |->
        CASE i = OFF_operating_mode + 1 -> f.operating_mode
          [] i = OFF_physical_effect_control + 1 -> f.physical_effect_control
          [] i = OFF_light_effect_control + 1 -> f.light_effect_control
          [] i = OFF_motor_right + 1 -> f.motor_right
          [] i = OFF_motor_left + 1 -> f.motor_left
          [] i = OFF_lightbar_red + 1 -> f.lightbar_red
          [] i = OFF_lightbar_green + 1 -> f.lightbar_green
          [] i = OFF_lightbar_blue + 1 -> f.lightbar_blue
          [] OTHER -> 0]

\* data.ljust(width, b'\x00')
LJust(data, width) ==
    IF Len(data) >= width THEN data
    ELSE data \o [i \in 1..(width - Len(data)) |-> 0]

\* The orders in which popitem() may empty a map with these keys.
PopOrders(keys) ==
    {o \in [1..Cardinality(keys) -> keys] : \A c \in keys : \E i \in DOMAIN o : o[i] = c}

\* One interruptWrite(3, bytes(bytearray(output).ljust(64, b'\x00'))).
WriteOf(output_id) ==
    [channel |-> output_id, endpoint |-> OutEndpoint,
     data |-> LJust(ByteArray(Fields(outputs[output_id])), PacketSize)]

\* flush(): HIDController.flush() writes nothing; then every pending output
\* is popped and written.
Flush ==
    /\ \E order \in PopOrders(DOMAIN outputs) :
          last' = [op |-> "flush", pending |-> sched,
                   writes |-> [i \in DOMAIN order |-> WriteOf(order[i])]]
    /\ outputs' = EmptyOutputs
    /\ sched' = NoneScheduled
    /\ UNCHANGED evvars
    /\ UNCHANGED <<mapper, motor_left, motor_right, feedback_cancel_task,
                   tasks, now, decoder, steps, configs, packets>>

\* ------------------------------------------------------------- feedback

\* Mutant: the right motor is scaled to 0x100 instead of 0xff.
ClampedAmp_Scale256(amplitude) == Trunc(amplitude * UByteMod, AmpNorm)

\* clamped_amp = int(float(amplitude) / 0x8000 * 0xff)
ClampedAmp(amplitude) == Trunc(amplitude * FullScale, AmpNorm)

\* half_amp = int(float(amplitude) / 0x8000 * 0x80)
HalfAmp(amplitude) == Trunc(amplitude * HalfScale, AmpNorm)

\* motor_left after feedback(position, amplitude, ..)
NewMotorLeft(position, amplitude) ==
    IF position \in {"LEFT", "BOTH"} THEN UByte(HalfAmp(amplitude))
    ELSE motor_left

\* Mutant: every position engages the right motor.
NewMotorRight_Always(position, amplitude) ==
    UByte(Trunc(amplitude * FullScale, AmpNorm))

\* motor_right after feedback(position, amplitude, ..)
NewMotorRight(position, amplitude) ==
    IF position \in {"RIGHT", "BOTH"} THEN UByte(ClampedAmp(amplitude))
    ELSE motor_right

\* Mutant: the 20 ms floor is left out.
Duration_NoFloor(period, count) == period * count * PeriodTicks

\* Mutant: a clear still pending keeps its deadline when it is the later one.
Duration_KeepLongest(period, count) ==
    IF feedback_cancel_task # None /\ Pending(tasks[feedback_cancel_task])
    THEN Max(Max(period * count * PeriodTicks, MinDuration),
             tasks[feedback_cancel_task].time - now)
    ELSE Max(period * count * PeriodTicks, MinDuration)

\* duration = max(float(period) * count / 0x10000, 0.02), in ticks
Duration(period, count) ==
    Max(period * count * PeriodTicks, MinDuration)

\* Mutant: the previous clear task is never cancelled.
CancelPrevious_Never == tasks

\* Mutant: the previous clear task is cancelled only once it has run.
CancelPrevious_OnlyRun ==
    IF feedback_cancel_task # None /\ tasks[feedback_cancel_task].fired
    THEN Cancel(tasks, feedback_cancel_task)
    ELSE tasks

\* if self._feedback_cancel_task: self._feedback_cancel_task.cancel()
CancelPrevious ==
    IF feedback_cancel_task # None
    THEN Cancel(tasks, feedback_cancel_task)
    ELSE tasks

\* History: a feedback command is issued while these tasks have not run.
Supersede(ts) ==
    [i \in DOMAIN ts |-> [ts[i] EXCEPT !.superseded = @ \/ ~ts[i].fired]]

\* Controller.set_mapper(mapper): a consumer is registered.
SetMapper ==
    /\ ~mapper
    /\ mapper' = TRUE
    /\ last' = [op |-> "set_mapper"]
    /\ UNCHANGED evvars
    /\ UNCHANGED <<motor_left, motor_right, outputs, feedback_cancel_task,
                   tasks, now, decoder, sched, steps, configs, packets>>

\* feedback(data), data.data = (position, amplitude, period, count).  The
\* mapper is the caller, so self.mapper is set.
Feedback(position, amplitude, period, count) ==
    /\ mapper
    /\ Len(tasks) < MaxCmds
    /\ motor_left' = NewMotorLeft(position, amplitude)
    /\ motor_right' = NewMotorRight(position, amplitude)
    /\ outputs' = ScheduleOutput(outputs, "feedback", FeedbackRef)
    /\ sched' = LogSchedule(sched, "feedback", FeedbackRef)
    /\ tasks' = Schedule(Supersede(CancelPrevious), Duration(period, count))
    /\ feedback_cancel_task' = Len(tasks) + 1
    /\ last' = [op |-> "feedback", position |-> position,
                amplitude |-> amplitude, period |-> period, count |-> count]
    /\ UNCHANGED evvars
    /\ UNCHANGED <<mapper, now, decoder, steps, configs, packets>>

\* The loop runs a due task: clear_feedback(mapper).
ClearFeedback_NoOutput(id) ==
    /\ id \in 1..Len(tasks)
    /\ Pending(tasks[id])
    /\ tasks[id].time <= now
    /\ motor_right' = 0
    /\ motor_left' = 0
    /\ tasks' = [tasks EXCEPT ![id].fired = TRUE, ![id].firedAt = now]
    /\ last' = [op |-> "clear_feedback", id |-> id]
    /\ UNCHANGED evvars
    /\ UNCHANGED <<mapper, feedback_cancel_task, now, decoder, steps,
                   configs, packets, outputs, sched>>

ClearFeedback(id) ==
    /\ id \in 1..Len(tasks)
    /\ Pending(tasks[id])
    /\ tasks[id].time <= now
    /\ motor_right' = 0
    /\ motor_left' = 0
    /\ outputs' = ScheduleOutput(outputs, "feedback", FeedbackRef)
    /\ sched' = LogSchedule(sched, "feedback", FeedbackRef)
    /\ tasks' = [tasks EXCEPT ![id].fired = TRUE, ![id].firedAt = now]
    /\ last' = [op |-> "clear_feedback", id |-> id]
    /\ UNCHANGED evvars
    /\ UNCHANGED <<mapper, feedback_cancel_task, now, decoder, steps,
                   configs, packets>>

\* The loop waits: the clock advances.
Tick ==
    /\ steps < MaxSteps
    /\ now' = now + Quantum
    /\ steps' = steps + 1
    /\ last' = [op |-> "tick"]
    /\ UNCHANGED evvars
    /\ UNCHANGED <<mapper, motor_left, motor_right, outputs,
                   feedback_cancel_task, tasks, decoder, sched, configs,
                   packets>>

\* The loop waits for its next timer: the clock advances, beyond MaxSteps
\* steps only while a task is pending and not yet due.
Wait ==
    /\ \/ steps < MaxSteps
       \/ \E id \in 1..Len(tasks) :
                Pending(tasks[id]) /\ tasks[id].time > now
    /\ now' = now + Quantum
    /\ steps' = Min(steps + 1, MaxSteps)
    /\ last' = [op |-> "wait"]
    /\ UNCHANGED evvars
    /\ UNCHANGED <<mapper, motor_left, motor_right, outputs,
                   feedback_cancel_task, tasks, decoder, sched, configs,
                   packets>>

\* ------------------------------------------------------------ configure

\* ICON_COLORS, each channel in tenths (ColorDen): 0.4 is 4, 1.0 is 10.
ICON_COLORS == <<
    <<0, 10, 0>>,
    <<0, 0, 10>>,
    <<10, 0, 0>>,
    <<10, 10, 0>>,
    <<0, 10, 10>>,
    <<10, 4, 0>>,
    <<10, 0, 10>> >>

\* lightbar_color = (0.0, 0.0, 1.0)  # blue by default
DefaultColor == <<0, 0, 10>>

\* s.rsplit(sep, 1): split at the last sep, if there is one.
RSplit1(s, sep) ==
    LET at == {i \in DOMAIN s : s[i] = sep}
    IN  IF at = {} THEN <<s>>
        ELSE LET i == CHOOSE k \in at : \A j \in at : j <= k
             IN  <<SubSeq(s, 1, i - 1), SubSeq(s, i + 1, Len(s))>>

Digits == {"0", "1", "2", "3", "4", "5", "6", "7", "8", "9"}

DigitVal(c) ==
    CASE c = "0" -> 0 [] c = "1" -> 1 [] c = "2" -> 2 [] c = "3" -> 3
      [] c = "4" -> 4 [] c = "5" -> 5 [] c = "6" -> 6 [] c = "7" -> 7
      [] c = "8" -> 8 [] c = "9" -> 9

RECURSIVE DecimalVal(_)
DecimalVal(s) ==
    IF s = << >> THEN 0
    ELSE 10 * DecimalVal(SubSeq(s, 1, Len(s) - 1)) + DigitVal(s[Len(s)])

\* The characters isspace() holds for in a python 2 str: blank, tab, newline,
\* carriage return, form feed and vertical tab (the last one written as the
\* character itself).
Whitespace == {" ", "\t", "\n", "\r", "\f", ""}

\* s without its leading and trailing blanks.
RECURSIVE Strip(_)
Strip(s) ==
    IF s = << >> THEN s
    ELSE IF s[1] \in Whitespace THEN Strip(Tail(s))
    ELSE IF s[Len(s)] \in Whitespace THEN Strip(SubSeq(s, 1, Len(s) - 1))
    ELSE s

\* int(raw_idx) of python 2 on a str: blanks are skipped at both ends and
\* between the sign and the digits; then an optional sign and at least one
\* digit; anything else is a ValueError (ok is FALSE).
ParseInt(s) ==
    LET text == Strip(s)
        signed == text # << >> /\ text[1] \in {"+", "-"}
        digits == IF signed THEN Strip(Tail(text)) ELSE text
    IN  IF digits # << >> /\ \A i \in DOMAIN digits : digits[i] \in Digits
        THEN [ok |-> TRUE,
              value |-> IF signed /\ text[1] = "-" THEN 0 - DecimalVal(digits)
                        ELSE DecimalVal(digits)]
        ELSE [ok |-> FALSE, value |-> 0]

\* ICON_COLORS[icon_idx] for icon_idx < len(ICON_COLORS): a negative index
\* counts from the end, and one below -len is an IndexError.
PaletteColor(icon_idx) ==
    IF icon_idx >= 0
    THEN [raised |-> "", palette |-> TRUE, color |-> ICON_COLORS[icon_idx + 1]]
    ELSE IF icon_idx >= 0 - Len(ICON_COLORS)
    THEN [raised |-> "", palette |-> TRUE,
          color |-> ICON_COLORS[Len(ICON_COLORS) + icon_idx + 1]]
    ELSE [raised |-> "IndexError", palette |-> FALSE, color |-> DefaultColor]

UseDefault == [raised |-> "", palette |-> FALSE, color |-> DefaultColor]

\* The colour configure(icon, ..) selects (lines 308-320), or the error the
\* selection raises.
SelectColor(icon) ==
    IF icon = << >> THEN UseDefault
    ELSE LET split == RSplit1(icon, ".")
         IN  IF Len(split) # 2
             THEN [raised |-> "ValueError", palette |-> FALSE,
                   color |-> DefaultColor]
             ELSE LET parts == RSplit1(split[1], "-")
                      idx == ParseInt(parts[Len(parts)])
                  IN  IF ~idx.ok THEN UseDefault
                      ELSE IF idx.value < Len(ICON_COLORS)
                      THEN PaletteColor(idx.value)
                      ELSE UseDefault

\* Mutant: the channel is rounded to the nearest integer, not truncated.
LightbarByte_Rounded(color_norm, led_level) ==
    UByte(Trunc(2 * color_norm * led_level * ByteScale + ColorDen * LevelNorm,
                2 * ColorDen * LevelNorm))

\* int(color_norm * led_level_norm * 255), stored in a c_ubyte field
LightbarByte(color_norm, led_level) ==
    UByte(Trunc(color_norm * led_level * ByteScale, ColorDen * LevelNorm))

\* The DualSenseHIDOutput configure builds.
LightbarOutput(color, led_level) ==
    [shared |-> FALSE,
     red |-> LightbarByte(color[1], led_level),
     green |-> LightbarByte(color[2], led_level),
     blue |-> LightbarByte(color[3], led_level)]

\* configure(icon, led_level)
Configure(icon, led_level) ==
    /\ configs < MaxConfigs
    /\ configs' = configs + 1
    /\ LET sel == SelectColor(icon)
       IN  /\ IF sel.raised # ""
              THEN UNCHANGED <<outputs, sched>>
              ELSE /\ outputs' = ScheduleOutput(outputs, "lightbar",
                                    LightbarOutput(sel.color, led_level))
                   /\ sched' = LogSchedule(sched, "lightbar",
                                    LightbarOutput(sel.color, led_level))
           /\ last' = [op |-> "configure", icon |-> icon,
                       led_level |-> led_level, raised |-> sel.raised,
                       palette |-> sel.palette, color |-> sel.color]
    /\ UNCHANGED evvars
    /\ UNCHANGED <<mapper, motor_left, motor_right, feedback_cancel_task,
                   tasks, now, decoder, steps, packets>>

\* ---------------------------------------------------------------- input

\* ord(data[33]) >> 7
TouchHighBit(byte) == byte \div (2 ^ TouchShift)

\* The decode primitive, _lib.decode(decoder, data): on failure (reported
\* FALSE) the decoder is left alone; on success old_state takes the previous
\* state and state the decoded one.
Decode(dec, accepted, decoded) ==
    IF accepted THEN [old_state |-> dec.state, state |-> decoded] ELSE dec

\* Mutant: the sense of the high bit is not inverted.
TouchOverride_NotInverted(st, byte) ==
    IF TouchHighBit(byte) # 0
    THEN [st EXCEPT !.buttons = @ \cup {"CPADTOUCH"}]
    ELSE [st EXCEPT !.buttons = @ \ {"CPADTOUCH"}]

\* The CPADTOUCH override of input().
TouchOverride(st, byte) ==
    IF TouchHighBit(byte) # 0
    THEN [st EXCEPT !.buttons = @ \ {"CPADTOUCH"}]
    ELSE [st EXCEPT !.buttons = @ \cup {"CPADTOUCH"}]

\* The decoder after input(endpoint, data).
InputDecoder(accepted, decoded, byte) ==
    LET dec == Decode(decoder, accepted, decoded)
    IN  IF accepted /\ mapper
        THEN [dec EXCEPT !.state = TouchOverride(dec.state, byte)]
        ELSE dec

\* Mutant: the pair is forwarded whatever the decode primitive reports.
InputCalls_Always(accepted, dec) ==
    IF mapper
    THEN << [old_state |-> dec.old_state, state |-> dec.state] >>
    ELSE << >>

\* The mapper.input(self, old_state, state) calls of input(endpoint, data).
InputCalls(accepted, dec) ==
    IF accepted /\ mapper
    THEN << [old_state |-> dec.old_state, state |-> dec.state] >>
    ELSE << >>

\* input(endpoint, data): data has byte 33 = byte; the decode primitive
\* reports accepted and, when it accepts, decodes data as decoded.
Input(accepted, decoded, byte) ==
    /\ packets < MaxPackets
    /\ packets' = packets + 1
    /\ decoder' = InputDecoder(accepted, decoded, byte)
    /\ last' = [op |-> "input", accepted |-> accepted, byte |-> byte,
                raised |-> "",
                calls |-> InputCalls(accepted, decoder')]
    /\ UNCHANGED evvars
    /\ UNCHANGED <<mapper, motor_left, motor_right, outputs,
                   feedback_cancel_task, tasks, now, sched, steps, configs>>

States == [buttons : SUBSET Buttons]

\* ------------------------------------------------- DS5EvdevController

\* The fields of the controller state that the three evdev devices write.
\* buttons is the set of the button bits that are set.
NoInputs == [buttons |-> {}, gpitch |-> 0, gyaw |-> 0, groll |-> 0,
             cpad_x |-> 0, cpad_y |-> 0]

\* The gyro and touchpad devices of one DS5EvdevController.
Sensors == {"gyro", "touchpad"}

\* An input event read from an evdev device.
Ev(type, code, value) == [type |-> type, code |-> code, value |-> value]

\* int(x) of a quotient n/d of either sign: truncation toward zero.
IntOf(n, d) == IF n >= 0 THEN n \div d ELSE -((-n) \div d)

\* GYRO_MAP: axis code -> (axis, factor), factor = sign/den.
GYRO_MAP ==
    [ABS_RX |-> [axis |-> "gpitch", sign |-> 1, den |-> GyroDen],
     ABS_RY |-> [axis |-> "gyaw", sign |-> 1, den |-> GyroDen],
     ABS_RZ |-> [axis |-> "groll", sign |-> 1, den |-> GyroDen],
     ABS_X |-> [axis |-> NoAxis, sign |-> 1, den |-> 1],
     ABS_Y |-> [axis |-> NoAxis, sign |-> 1, den |-> 1],
     ABS_Z |-> [axis |-> NoAxis, sign |-> -1, den |-> 1]]

\* int(event.value * factor)
GyroValue_Floor(event, m) == (event.value * m.sign) \div m.den

GyroValue(event, m) == IntOf(event.value * m.sign, m.den)

\* One event of the gyro batch, applied to the candidate state.  replaced
\* records that new_state was rebound to a new object (_replace).
GyroReplace(cand, event) ==
    IF event.type = "EV_ABS"
    THEN LET m == GYRO_MAP[event.code]
         IN IF m.axis # NoAxis
            THEN [state |-> [cand.state EXCEPT
                                ![m.axis] = GyroValue(event, m)],
                  replaced |-> TRUE]
            ELSE cand
    ELSE cand

\* for event in self._gyro.read(): ...
RECURSIVE GyroRead(_, _)
GyroRead(cand, events) ==
    IF events = << >>
    THEN cand
    ELSE GyroRead(GyroReplace(cand, Head(events)), Tail(events))

\* value = STICK_PAD_MIN + int(event.value * TOUCH_FACTOR_X)
TouchX(value) == STICK_PAD_MIN + IntOf(value * STICK_PAD_MAX, TouchWidth)

\* value = STICK_PAD_MAX - int(event.value * TOUCH_FACTOR_Y)
TouchY(value) == STICK_PAD_MAX - IntOf(value * STICK_PAD_MAX, TouchHeight)

\* BTN_TOUCH with a value other than 1: the finger left the pad.
TouchRelease_KeepPosition(st) ==
    [st EXCEPT !.buttons = @ \ {"CPADTOUCH"}]

TouchRelease(st) ==
    [st EXCEPT !.buttons = @ \ {"CPADTOUCH"}, !.cpad_x = 0, !.cpad_y = 0]

\* One event of the touchpad batch, applied to the candidate state.
TouchpadReplace_SetsButtons(cand, event) ==
    LET st == cand.state
        new(s) == [state |-> s, replaced |-> TRUE]
    IN IF event.type = "EV_ABS"
       THEN IF event.code = "ABS_MT_POSITION_X"
            THEN new([st EXCEPT !.cpad_x = TouchX(event.value)])
            ELSE IF event.code = "ABS_MT_POSITION_Y"
            THEN new([st EXCEPT !.cpad_y = TouchY(event.value)])
            ELSE cand
       ELSE IF event.type = "EV_SYN"
       THEN cand
       ELSE IF event.code = "BTN_LEFT"
       THEN IF event.value = 1
            THEN new([st EXCEPT !.buttons = {"CPADPRESS"}])
            ELSE new([st EXCEPT !.buttons = {}])
       ELSE IF event.code = "BTN_TOUCH"
       THEN IF event.value = 1
            THEN new([st EXCEPT !.buttons = {"CPADTOUCH"}])
            ELSE new(TouchRelease(st))
       ELSE cand

TouchpadReplace(cand, event) ==
    LET st == cand.state
        new(s) == [state |-> s, replaced |-> TRUE]
    IN IF event.type = "EV_ABS"
       THEN IF event.code = "ABS_MT_POSITION_X"
            THEN new([st EXCEPT !.cpad_x = TouchX(event.value)])
            ELSE IF event.code = "ABS_MT_POSITION_Y"
            THEN new([st EXCEPT !.cpad_y = TouchY(event.value)])
            ELSE cand
       ELSE IF event.type = "EV_SYN"
       THEN cand
       ELSE IF event.code = "BTN_LEFT"
       THEN IF event.value = 1
            THEN new([st EXCEPT !.buttons = @ \cup {"CPADPRESS"}])
            ELSE new([st EXCEPT !.buttons = @ \ {"CPADPRESS"}])
       ELSE IF event.code = "BTN_TOUCH"
       THEN IF event.value = 1
            THEN new([st EXCEPT !.buttons = @ \cup {"CPADTOUCH"}])
            ELSE new(TouchRelease(st))
       ELSE cand

\* for event in self._touchpad.read(): ...
RECURSIVE TouchpadRead(_, _)
TouchpadRead(cand, events) ==
    IF events = << >>
    THEN cand
    ELSE TouchpadRead(TouchpadReplace(cand, Head(events)), Tail(events))

\* No pair was sent yet.
NoEmission ==
    [any |-> FALSE, current |-> NoInputs, same |-> FALSE, main |-> FALSE]

\* A pair was sent whose new state is the object now in self._state.
Emission(new_state) ==
    [any |-> TRUE, current |-> new_state, same |-> TRUE, main |-> FALSE]

\* new_state = self._state, before the batch is read.
Candidate == [state |-> state, replaced |-> FALSE]

\* except IOError: return
AfterRead_KeepPartial(cand, ioerror) == cand

AfterRead(cand, ioerror) == IF ioerror THEN Candidate ELSE cand

\* if new_state is not self._state: an identity test, true as soon as one
\* event has rebound new_state, whatever the values.
IsNew_ByValue(cand) == cand.state # state

IsNew(cand) == cand.replaced

\* if self.mapper: self.mapper.input(self, old_state, new_state)
MapperInput_SameTwice(old_state, new_state) ==
    IF mapper
    THEN << [old_state |-> new_state, state |-> new_state] >>
    ELSE << >>

MapperInput(old_state, new_state) ==
    IF mapper
    THEN << [old_state |-> old_state, state |-> new_state] >>
    ELSE << >>

\* The end of both callbacks: the candidate becomes the persistent state and
\* is sent to the mapper.  op names the callback.
Publish(op, events, ioerror, read) ==
    LET cand == AfterRead(read, ioerror)
    IN /\ state' = IF IsNew(cand) THEN cand.state ELSE state
       /\ last' = [op |-> op, events |-> events, ioerror |-> ioerror,
                   old |-> state, raised |-> "", prior |-> emitted,
                   calls |-> IF IsNew(cand)
                             THEN MapperInput(state, cand.state)
                             ELSE << >>]
       /\ emitted' = IF ~IsNew(cand) THEN emitted
                     ELSE IF MapperInput(state, cand.state) # << >>
                     THEN Emission(cand.state)
                     ELSE [emitted EXCEPT !.same = FALSE]

\* _gyro_input(): the poller reports the gyro device readable; read() yields
\* events and then, when ioerror, raises IOError.
GyroInput(events, ioerror) ==
    /\ "gyro" \in evdev.registered
    /\ Publish("_gyro_input", events, ioerror, GyroRead(Candidate, events))
    /\ UNCHANGED <<mapper, hidvars, drv, evdev>>

\* _touchpad_input(): the same for the touchpad device.
TouchpadInput(events, ioerror) ==
    /\ "touchpad" \in evdev.registered
    /\ Publish("_touchpad_input", events, ioerror,
               TouchpadRead(Candidate, events))
    /\ UNCHANGED <<mapper, hidvars, drv, evdev>>

\* EvdevController.input of the main device: a button of the gamepad changes.
MainInput(pressed) ==
    /\ evdev.constructed /\ ~evdev.closed
    /\ state' = [state EXCEPT !.buttons = IF pressed THEN @ \cup {"A"}
                                          ELSE @ \ {"A"}]
    /\ last' = [op |-> "input_main", pressed |-> pressed, old |-> state]
    /\ emitted' = [emitted EXCEPT !.same = FALSE, !.main = emitted.any]
    /\ UNCHANGED <<mapper, hidvars, feed, drv, evdev>>

\* All batches of at most MaxBatch events drawn from the set events.
Batches(events) == UNION {[1..n -> events] : n \in 0..MaxBatch}

\* Events of the gyro device: every axis code of GYRO_MAP, and the end of a
\* report.
GyroEvents ==
    {Ev("EV_ABS", "ABS_RX", -150), Ev("EV_ABS", "ABS_RY", 250),
     Ev("EV_ABS", "ABS_RZ", -150),
     Ev("EV_ABS", "ABS_X", 7), Ev("EV_ABS", "ABS_Y", 7),
     Ev("EV_ABS", "ABS_Z", 7),
     Ev("EV_SYN", "SYN_REPORT", 0)}

SomeGyroEvents ==
    {Ev("EV_ABS", "ABS_RX", 250), Ev("EV_ABS", "ABS_RZ", -150),
     Ev("EV_ABS", "ABS_X", 7), Ev("EV_SYN", "SYN_REPORT", 0)}

\* Events of the touchpad device.
TouchpadEvents ==
    {Ev("EV_ABS", "ABS_MT_POSITION_X", 470),
     Ev("EV_ABS", "ABS_MT_POSITION_Y", 235),
     Ev("EV_KEY", "BTN_LEFT", 1),
     Ev("EV_KEY", "BTN_TOUCH", 1), Ev("EV_KEY", "BTN_TOUCH", 0),
     Ev("EV_SYN", "SYN_REPORT", 0)}

SomeTouchpadEvents ==
    {Ev("EV_ABS", "ABS_MT_POSITION_X", 470),
     Ev("EV_KEY", "BTN_TOUCH", 1), Ev("EV_KEY", "BTN_TOUCH", 0),
     Ev("EV_SYN", "SYN_REPORT", 0)}

\* ---------------------------------------- DS5EvdevController: lifecycle

\* An evdev device as make_evdev_device sees it: the number of its absolute
\* axes, whether ABS_MT_POSITION_X is one of them, and its phys string.
Device(axes, mt, phys) == [axes |-> axes, mt |-> mt, phys |-> phys]

\* None, where a device is expected.
NoDevice == Device(0, FALSE, << >>)

\* s.startswith(p)
StartsWith(s, p) == Len(p) <= Len(s) /\ SubSeq(s, 1, Len(p)) = p

\* s.split("/")[0]
SplitFirst(s) ==
    LET at == {i \in 1..Len(s) : s[i] = "/"}
    IN IF at = {}
       THEN s
       ELSE SubSeq(s, 1, (CHOOSE i \in at : \A j \in at : i <= j) - 1)

\* The first loop: the last enumerated device with 8 axes.
ControllerDevice(devices) ==
    LET found == {i \in 1..Len(devices) : devices[i].axes = 8}
    IN IF found = {}
       THEN NoDevice
       ELSE devices[CHOOSE i \in found : \A j \in found : j <= i]

\* phys = device.phys.split("/")[0], where device is the variable of the
\* first loop: the last enumerated device.
Phys(devices) == SplitFirst(devices[Len(devices)].phys)

\* One pass of the second loop.
Classify(roles, device, phys) ==
    IF StartsWith(device.phys, phys)
    THEN IF device.axes = 6
         THEN IF device.mt
              THEN [roles EXCEPT !.touchpad = device]
              ELSE [roles EXCEPT !.gyro = device]
         ELSE IF device.axes = 4
         THEN [roles EXCEPT !.touchpad = device]
         ELSE roles
    ELSE roles

RECURSIVE ClassifyAll(_, _, _)
ClassifyAll(roles, devices, phys) ==
    IF devices = << >>
    THEN roles
    ELSE ClassifyAll(Classify(roles, Head(devices), phys), Tail(devices),
                     phys)

\* make_evdev_device before its last statement: the three roles.
Roles(devices) ==
    LET controllerdevice == ControllerDevice(devices)
        none == [controllerdevice |-> controllerdevice, gyro |-> NoDevice,
                 touchpad |-> NoDevice]
    IN IF controllerdevice = NoDevice
       THEN none
       ELSE ClassifyAll(none, devices, Phys(devices))

\* if controllerdevice and gyro and touchpad:
Resolved_AnySensor(roles) ==
    /\ roles.controllerdevice # NoDevice
    /\ roles.gyro # NoDevice \/ roles.touchpad # NoDevice

Resolved(roles) ==
    /\ roles.controllerdevice # NoDevice
    /\ roles.gyro # NoDevice
    /\ roles.touchpad # NoDevice

\* No DS5EvdevController was constructed.
NoEvdev ==
    [constructed |-> FALSE, closed |-> FALSE, poller |-> FALSE,
     roles |-> [controllerdevice |-> NoDevice, gyro |-> NoDevice,
                touchpad |-> NoDevice],
     grabbed |-> {}, registered |-> {}, ungrab |-> {}, raised |-> ""]

\* The sensors DS5EvdevController.__init__ grabs: if device: device.grab()
Grabs(roles) ==
    {d \in Sensors : roles[d] # NoDevice}

\* The sensors whose fd __init__ registers with the poller, touchpad first:
\* touchpad.fd or gyro.fd of a missing (None) sensor is an AttributeError,
\* which ends __init__ before the registrations that follow.
Registers(roles, poller) ==
    IF ~poller \/ roles.touchpad = NoDevice THEN {}
    ELSE IF roles.gyro = NoDevice THEN {"touchpad"}
    ELSE Sensors

\* DS5EvdevController.__init__(daemon, controllerdevice, gyro, touchpad) on
\* a daemon whose get_poller() is, or is not, None.  With a poller and a
\* missing sensor it raises after the grabs: no adapter is constructed.
NewEvdev(roles, poller) ==
    LET raises == poller /\ \E d \in Sensors : roles[d] = NoDevice
    IN  [constructed |-> ~raises, closed |-> FALSE, poller |-> poller,
         roles |-> roles,
         grabbed |-> Grabs(roles),
         registered |-> Registers(roles, poller),
         ungrab |-> {},
         raised |-> IF raises THEN "AttributeError" ELSE ""]

\* make_evdev_device(syspath), the devices under syspath being devices:
\* what it constructs.
MakeEvdevDevice(devices) ==
    IF Resolved(Roles(devices))
    THEN /\ evdev' = NewEvdev(Roles(devices), drv.poller)
         /\ state' = NoInputs
         /\ emitted' = NoEmission
    ELSE UNCHANGED <<evdev, state, emitted>>

\* The adapters a call of make_evdev_device constructs.
Made(devices) ==
    IF Resolved(Roles(devices)) THEN <<"DS5EvdevController">> ELSE << >>

\* init(daemon, config): the condition of line 619.
Enabled_HidOnly == drv.hiddrv

Enabled == drv.hiddrv \/ (drv.HAVE_EVDEV /\ drv.evdevdrv)

DriverInit ==
    /\ drv.init = ""
    /\ drv' = [drv EXCEPT
                !.init = IF Enabled THEN "True" ELSE "False",
                !.hotplug = Enabled,
                !.bluetooth = Enabled /\ drv.HAVE_EVDEV /\ drv.evdevdrv]
    /\ last' = [op |-> "driver_init"]
    /\ UNCHANGED <<mapper, hidvars, state, feed, evdev, emitted>>

\* No adapter serves the controller: none was constructed, or it was closed.
Unserved ==
    /\ drv.hid = 0
    /\ evdev.constructed => evdev.closed

\* fail_cb: if HAVE_EVDEV: make_evdev_device(syspath)
Fallback_Always == TRUE

Fallback == drv.HAVE_EVDEV

\* A hotplug match of VENDOR_ID/PRODUCT_ID.  The USB layer opens the device:
\* on success it calls hid_callback, on failure fail_cb.
HotplugMatch(acquired, devices) ==
    /\ drv.hotplug
    /\ Unserved
    /\ drv.matches < MaxMatches
    /\ IF acquired
       THEN /\ drv' = [drv EXCEPT !.matches = @ + 1, !.hid = @ + 1]
            /\ UNCHANGED <<evdev, state, emitted>>
       ELSE /\ drv' = [drv EXCEPT !.matches = @ + 1]
            /\ IF Fallback
               THEN MakeEvdevDevice(devices)
               ELSE UNCHANGED <<evdev, state, emitted>>
    /\ last' = [op |-> "hotplug", acquired |-> acquired,
                devices |-> devices,
                attempted |-> ~acquired /\ Fallback,
                roles |-> Roles(devices), raised |-> "",
                made |-> IF acquired THEN <<"DS5Controller">>
                         ELSE IF Fallback THEN Made(devices)
                         ELSE << >>]
    /\ UNCHANGED <<mapper, hidvars, feed>>

\* The device monitor reports a bluetooth device of VENDOR_ID/PRODUCT_ID:
\* make_evdev_device(syspath).
BluetoothAdded(devices) ==
    /\ drv.bluetooth
    /\ Unserved
    /\ drv.matches < MaxMatches
    /\ drv' = [drv EXCEPT !.matches = @ + 1]
    /\ MakeEvdevDevice(devices)
    /\ last' = [op |-> "bluetooth", devices |-> devices,
                roles |-> Roles(devices), raised |-> "",
                made |-> Made(devices)]
    /\ UNCHANGED <<mapper, hidvars, feed>>

\* One pass of the loop of close() over device d: unregister, then ungrab,
\* both inside one try.  unregister raises when there is no poller
\* (self.poller is None) or when the poller fails; ungrab raises when the
\* device fails.
CloseOne(ev, d, unregister_fails, ungrab_fails) ==
    IF ~ev.poller \/ d \in unregister_fails
    THEN ev
    ELSE [ev EXCEPT !.registered = @ \ {d},
                    !.ungrab = @ \cup {d},
                    !.grabbed = IF d \in ungrab_fails THEN @ ELSE @ \ {d}]

\* close(): EvdevController.close, then the loop over (gyro, touchpad).
Close(unregister_fails, ungrab_fails) ==
    /\ evdev.constructed /\ ~evdev.closed
    /\ evdev' = [CloseOne(CloseOne(evdev, "gyro", unregister_fails,
                                   ungrab_fails),
                          "touchpad", unregister_fails, ungrab_fails)
                    EXCEPT !.closed = TRUE]
    /\ last' = [op |-> "close", unregister_fails |-> unregister_fails,
                ungrab_fails |-> ungrab_fails, raised |-> "",
                grabbed |-> evdev.grabbed]
    /\ UNCHANGED <<mapper, hidvars, state, feed, drv, emitted>>

\* The devices of one controller: the gamepad, its motion sensors and its
\* touchpad (with 4 axes, or with 6 and multi-touch positions), and devices
\* of another physical address.
PhysU1(input) == <<"u", "1", "/", input>>
PhysB(input) == <<"b", "/", input>>

Gamepad == Device(8, FALSE, PhysU1("0"))
Motion == Device(6, FALSE, PhysU1("1"))
Touchpad == Device(4, FALSE, PhysU1("2"))
TouchpadMT == Device(6, TRUE, PhysU1("2"))
Other4 == Device(4, FALSE, PhysB("0"))
Other6 == Device(6, FALSE, PhysB("1"))
Other8 == Device(8, FALSE, PhysB("2"))

AllDevices == {Gamepad, Motion, Touchpad, TouchpadMT, Other4, Other6, Other8}

\* get_evdev_devices_from_syspath: at most MaxDevices different devices, in
\* any order.
Enumerations ==
    UNION {{e \in [1..n -> AllDevices] :
                \A i, j \in 1..n : e[i] = e[j] => i = j} :
           n \in 0..MaxDevices}

SomeEnumerations ==
    {<< >>, <<Gamepad, Motion, Touchpad>>, <<Gamepad, Touchpad>>,
     <<Gamepad, Motion, Touchpad, Other4>>}

\* ------------------------------------------------------- specifications

\* DS5Controller after __init__, no mapper set.
InitHid ==
    /\ mapper = FALSE
    /\ motor_left = 0
    /\ motor_right = 0
    /\ outputs = EmptyOutputs
    /\ feedback_cancel_task = None
    /\ tasks = << >>
    /\ now = 0
    /\ decoder = [old_state |-> [buttons |-> {}], state |-> [buttons |-> {}]]
    /\ sched = NoneScheduled
    /\ steps = 0
    /\ configs = 0
    /\ packets = 0
    /\ last = [op |-> "init"]

\* No batch is prescribed to the sensors.
NoFeed == [gyro |-> << >>, touchpad |-> << >>, g |-> 0, t |-> 0]

\* The driver module before init(daemon, config): evdev is importable
\* (HAVE_EVDEV), both drivers are enabled in config["drivers"], and the daemon
\* has a poller.
Driver(have_evdev, hiddrv, evdevdrv, poller) ==
    [HAVE_EVDEV |-> have_evdev, hiddrv |-> hiddrv, evdevdrv |-> evdevdrv,
     poller |-> poller, init |-> "", hotplug |-> FALSE, bluetooth |-> FALSE,
     matches |-> 0, hid |-> 0]

Init ==
    /\ InitHid
    /\ state = NoInputs
    /\ emitted = NoEmission
    /\ feed = NoFeed
    /\ drv = Driver(TRUE, TRUE, TRUE, TRUE)
    /\ evdev = NoEvdev

\* A DS5EvdevController constructed by make_evdev_device, after init().
Served ==
    [Driver(TRUE, TRUE, TRUE, TRUE) EXCEPT
        !.init = "True", !.hotplug = TRUE, !.bluetooth = TRUE, !.matches = 1]

InitEvdev ==
    /\ InitHid
    /\ state = NoInputs
    /\ emitted = NoEmission
    /\ feed = NoFeed
    /\ drv = Served
    /\ evdev = NewEvdev(Roles(<<Gamepad, Motion, Touchpad>>), TRUE)

\* Any build and configuration of the driver, on any daemon.
InitDriver ==
    /\ InitHid
    /\ state = NoInputs
    /\ emitted = NoEmission
    /\ feed = NoFeed
    /\ \E have_evdev, hiddrv, evdevdrv, poller \in BOOLEAN :
            drv = Driver(have_evdev, hiddrv, evdevdrv, poller)
    /\ evdev = NoEvdev

\* The haptic feedback scheduler on the event loop.
Next ==
    \/ SetMapper
    \/ \E position \in HapticPos, amplitude \in Amplitudes,
          period \in Periods, count \in Counts :
            Feedback(position, amplitude, period, count)
    \/ \E id \in 1..MaxCmds : ClearFeedback(id)
    \/ Tick

Spec == Init /\ [][Next]_vars

\* The pending outputs: both channels scheduled, and flushed.
NextFlush ==
    \/ SetMapper
    \/ \E position \in HapticPos, amplitude \in Amplitudes :
            Feedback(position, amplitude, 0, 1)
    \/ \E icon \in SomeIcons, led_level \in SomeLevels :
            Configure(icon, led_level)
    \/ Flush

SpecFlush == Init /\ [][NextFlush]_vars

\* The lightbar configuration applied to a new controller (apply_config),
\* over every icon reference and led level, and the flush that writes it.
NextConfigure ==
    \/ /\ configs = 0
       /\ \E icon \in Icons, led_level \in AllLevels :
            Configure(icon, led_level)
    \/ Flush

SpecConfigure == Init /\ [][NextConfigure]_vars

\* The report input path.
NextInput ==
    \/ SetMapper
    \/ \E accepted \in BOOLEAN, decoded \in States, byte \in TouchBytes :
            Input(accepted, decoded, byte)
    \/ \E icon \in SomeIcons, led_level \in SomeLevels :
            Configure(icon, led_level)

SpecInput == Init /\ [][NextInput]_vars

\* The two sensor callbacks of a constructed DS5EvdevController.
NextEvdev ==
    \/ SetMapper
    \/ \E events \in Batches(SomeGyroEvents), ioerror \in BOOLEAN :
            GyroInput(events, ioerror) /\ UNCHANGED feed
    \/ \E events \in Batches(SomeTouchpadEvents), ioerror \in BOOLEAN :
            TouchpadInput(events, ioerror) /\ UNCHANGED feed

SpecEvdev == InitEvdev /\ [][NextEvdev]_vars

\* The gyro callback, over every axis code, when the read succeeds.
NextGyro ==
    \/ SetMapper
    \/ \E events \in Batches(GyroEvents) :
            GyroInput(events, FALSE) /\ UNCHANGED feed

SpecGyro == InitEvdev /\ [][NextGyro]_vars

\* The touchpad callback, over the events of a contact, when the read
\* succeeds.
NextTouchpad ==
    \/ SetMapper
    \/ \E events \in Batches(TouchpadEvents) :
            TouchpadInput(events, FALSE) /\ UNCHANGED feed

SpecTouchpad == InitEvdev /\ [][NextTouchpad]_vars

\* A batch as a sensor delivers it: the events read, and whether the read
\* then fails.
Batch(events, ioerror) == [events |-> events, ioerror |-> ioerror]

GyroBatches ==
    {Batch(<<Ev("EV_ABS", "ABS_RX", 250), Ev("EV_MSC", "MSC_TIMESTAMP", 5)>>,
           FALSE),
     Batch(<<Ev("EV_ABS", "ABS_RZ", -150), Ev("EV_ABS", "ABS_RX", -150)>>,
           FALSE),
     Batch(<<Ev("EV_ABS", "ABS_RY", 250)>>, TRUE)}

TouchpadBatches ==
    {Batch(<<Ev("EV_ABS", "ABS_MT_POSITION_X", 470),
             Ev("EV_KEY", "BTN_TOUCH", 1), Ev("EV_KEY", "BTN_LEFT", 0)>>,
           FALSE),
     Batch(<<Ev("EV_ABS", "ABS_MT_TRACKING_ID", -1),
             Ev("EV_KEY", "BTN_TOUCH", 0), Ev("EV_KEY", "BTN_TOOL_FINGER", 0),
             Ev("EV_KEY", "BTN_LEFT", 1)>>, FALSE),
     Batch(<<Ev("EV_ABS", "ABS_MT_POSITION_Y", 235),
             Ev("EV_KEY", "BTN_LEFT", 0)>>, TRUE)}

\* At most MaxFeed batches of a sensor, in the order of their delivery.
Feeds(batches) == UNION {[1..n -> batches] : n \in 0..MaxFeed}

InitFusion ==
    /\ InitHid
    /\ state = NoInputs
    /\ emitted = NoEmission
    /\ \E gyro \in Feeds(GyroBatches), touchpad \in Feeds(TouchpadBatches) :
            feed = [gyro |-> gyro, touchpad |-> touchpad, g |-> 0, t |-> 0]
    /\ drv = Served
    /\ evdev = NewEvdev(Roles(<<Gamepad, Motion, Touchpad>>), TRUE)

\* The loop runs the callbacks of the three devices in any order; each
\* sensor delivers its batches in its own order.
NextFusion ==
    \/ /\ feed.g < Len(feed.gyro)
       /\ GyroInput(feed.gyro[feed.g + 1].events,
                    feed.gyro[feed.g + 1].ioerror)
       /\ feed' = [feed EXCEPT !.g = @ + 1]
    \/ /\ feed.t < Len(feed.touchpad)
       /\ TouchpadInput(feed.touchpad[feed.t + 1].events,
                        feed.touchpad[feed.t + 1].ioerror)
       /\ feed' = [feed EXCEPT !.t = @ + 1]
    \/ \E pressed \in BOOLEAN : MainInput(pressed)

SpecFusion == InitFusion /\ [][NextFusion]_vars

\* Events of the two sensors that write one field each, and one that
\* writes none.
FewGyroEvents ==
    {Ev("EV_ABS", "ABS_RX", 250), Ev("EV_ABS", "ABS_RX", -150),
     Ev("EV_ABS", "ABS_X", 7)}

FewTouchpadEvents ==
    {Ev("EV_KEY", "BTN_TOUCH", 1), Ev("EV_KEY", "BTN_TOUCH", 0),
     Ev("EV_SYN", "SYN_REPORT", 0)}

\* The callbacks of the three devices of a constructed DS5EvdevController,
\* before and after the mapper is set.
NextSnapshots ==
    \/ SetMapper
    \/ \E events \in Batches(FewGyroEvents), ioerror \in BOOLEAN :
            GyroInput(events, ioerror) /\ UNCHANGED feed
    \/ \E events \in Batches(FewTouchpadEvents), ioerror \in BOOLEAN :
            TouchpadInput(events, ioerror) /\ UNCHANGED feed
    \/ \E pressed \in BOOLEAN : MainInput(pressed)

SpecSnapshots == InitEvdev /\ [][NextSnapshots]_vars

\* make_evdev_device on every enumeration of the devices under a syspath.
NextDiscovery ==
    \/ DriverInit
    \/ /\ drv.matches = 0
       /\ \E devices \in Enumerations : BluetoothAdded(devices)
    \/ \E unregister_fails, ungrab_fails \in SUBSET Sensors :
            Close(unregister_fails, ungrab_fails)

SpecDiscovery == Init /\ [][NextDiscovery]_vars

\* init(), the hotplug and monitor callbacks and close(), on every build and
\* configuration.
NextDriver ==
    \/ DriverInit
    \/ \E acquired \in BOOLEAN, devices \in SomeEnumerations :
            HotplugMatch(acquired, devices)
    \/ \E devices \in SomeEnumerations : BluetoothAdded(devices)
    \/ \E unregister_fails, ungrab_fails \in SUBSET Sensors :
            Close(unregister_fails, ungrab_fails)

SpecDriver == InitDriver /\ [][NextDriver]_vars

\* The feedback scheduler on a loop that keeps running: it waits for its
\* timers, runs each due task and flushes the outputs on every iteration.
NextLoop ==
    \/ SetMapper
    \/ \E period \in SomePeriods : Feedback("BOTH", AmpNorm, period, 1)
    \/ \E id \in 1..MaxCmds : ClearFeedback(id)
    \/ Wait
    \/ Flush

Fairness ==
    /\ WF_vars(Wait)
    /\ WF_vars(Flush)
    /\ \A id \in 1..MaxCmds : WF_vars(ClearFeedback(id))

SpecLoop == Init /\ [][NextLoop]_vars /\ Fairness

\* ============================================================ properties

\* ---- C1 ----------------------------------------------------------------
\* C1: when a feedback command is issued before the clear task of an earlier
\* command has run, the earlier clear task never runs; a clear task that has
\* run is therefore the one of the latest command of its burst, it ran once,
\* and it ran no earlier than that command's issue time plus that command's
\* duration (its deadline in the scheduler).
C1_SupersededClearNeverRuns ==
    \A i \in DOMAIN tasks :
        /\ tasks[i].superseded => ~tasks[i].fired
        /\ tasks[i].fired =>
              /\ tasks[i].firedAt >= tasks[i].issued + tasks[i].delay
              /\ tasks[i].time = tasks[i].issued + tasks[i].delay
              /\ tasks[i].delay >= MinDuration

\* Two commands, the second issued later than the first but before the
\* first's clear; the first's deadline has passed, only the second's clear
\* has run and the motors are zero.
C1_Witness ==
    /\ Len(tasks) = 2
    /\ tasks[1].superseded /\ ~tasks[1].fired
    /\ tasks[2].issued > tasks[1].issued
    /\ tasks[2].fired
    /\ tasks[1].time < tasks[2].firedAt
    /\ motor_left = 0 /\ motor_right = 0

\* ---- C2 ----------------------------------------------------------------
\* C2: in every reachable state at most one clear task is pending (scheduled,
\* not cancelled, not yet run), and a pending task is the one stored in
\* _feedback_cancel_task.
C2_AtMostOnePendingClear ==
    /\ Cardinality({i \in DOMAIN tasks : Pending(tasks[i])}) <= 1
    /\ \A i \in DOMAIN tasks : Pending(tasks[i]) => i = feedback_cancel_task

\* A second command was issued while the first's clear was pending: the
\* first is cancelled without having run and only the second is pending.
C2_Witness ==
    /\ Len(tasks) = 2
    /\ tasks[1].cancelled /\ ~tasks[1].fired
    /\ Pending(tasks[2])
    /\ feedback_cancel_task = 2

\* ---- C3 ----------------------------------------------------------------
\* C3 as stated: feedback(BOTH, amplitude 0x4000) sets motor_right to 0x80
\* and motor_left to 0x40.
C3_Original ==
    (last.op = "feedback" /\ last.position = "BOTH" /\ last.amplitude = 16384)
        => (motor_right = 128 /\ motor_left = 64)

\* C3 amended: feedback(BOTH, amplitude 0x4000) sets motor_right to 0x7f,
\* int(0.5 * 0xff), and motor_left to 0x40, int(0.5 * 0x80).
C3_BothHalfAmplitude ==
    (last.op = "feedback" /\ last.position = "BOTH" /\ last.amplitude = 16384)
        => (motor_right = 127 /\ motor_left = 64)

C3_Witness ==
    /\ last.op = "feedback" /\ last.position = "BOTH"
    /\ last.amplitude = 16384
    /\ motor_right = 127 /\ motor_left = 64

\* ---- C4 ----------------------------------------------------------------
\* C4: a feedback command with position LEFT changes motor_left only and
\* leaves motor_right at its prior value (amplitude 0x8000 gives 0x80); with
\* RIGHT it changes motor_right only and leaves motor_left at its prior
\* value; with BOTH it sets both motors.
C4_PositionSelectsMotors ==
    [][ (last'.op = "feedback" /\ tasks' # tasks) =>
            LET half == CASE last'.amplitude = 32768 -> 128
                          [] last'.amplitude = 16384 -> 64
                          [] last'.amplitude = 200 -> 0
                          [] last'.amplitude = 0 -> 0
                full == CASE last'.amplitude = 32768 -> 255
                          [] last'.amplitude = 16384 -> 127
                          [] last'.amplitude = 200 -> 1
                          [] last'.amplitude = 0 -> 0
            IN  /\ last'.position = "LEFT" =>
                      motor_left' = half /\ motor_right' = motor_right
                /\ last'.position = "RIGHT" =>
                      motor_right' = full /\ motor_left' = motor_left
                /\ last'.position = "BOTH" =>
                      motor_right' = full /\ motor_left' = half ]_vars

\* LEFT at amplitude 0x8000 after the right motor was engaged: motor_left is
\* 0x80 and motor_right still has its prior, non-zero value.
C4_Witness ==
    /\ last.op = "feedback" /\ last.position = "LEFT"
    /\ last.amplitude = 32768
    /\ motor_left = 128
    /\ motor_right = 255

\* ---- C5 ----------------------------------------------------------------
\* C5: the delay feedback passes to the scheduler is max(0.02 s,
\* period*count/0x10000 s): exactly 20 ms when period*count/0x10000 < 0.02
\* (so whenever period = 0), period*count/0x10000 otherwise, never below
\* 20 ms.  (0.02 = 1/50; delays are in ticks.)
C5_DelayIsFlooredDuration ==
    last.op = "feedback" =>
        LET d == tasks[Len(tasks)].delay
            pc == last.period * last.count
        IN  /\ d >= TicksPerSecond \div 50
            /\ 50 * pc < PeriodNorm => d = TicksPerSecond \div 50
            /\ 50 * pc >= PeriodNorm => d = pc * (TicksPerSecond \div PeriodNorm)
            /\ last.period = 0 => d = TicksPerSecond \div 50
            /\ tasks[Len(tasks)].time = now + d

\* Both sides of the floor: 1310/0x10000 s is below 20 ms and is raised to
\* it.
C5_Witness ==
    /\ last.op = "feedback"
    /\ last.period = 1310 /\ last.count = 1
    /\ tasks[Len(tasks)].delay = MinDuration
    /\ tasks[Len(tasks)].delay > 1310 * PeriodTicks

\* ---- C6 ----------------------------------------------------------------
\* The 64 bytes flush writes for a channel whose latest scheduled value is v:
\* the shared feedback record as it is now, or the lightbar record v.
C6_Packet(channel, v) ==
    [i \in 1..64 |->
        IF channel = "feedback"
        THEN CASE i = 1 -> 2 [] i = 2 -> 3
               [] i = 4 -> motor_right [] i = 5 -> motor_left
               [] OTHER -> 0
        ELSE CASE i = 1 -> 2 [] i = 3 -> 4
               [] i = 46 -> v.red [] i = 47 -> v.green [] i = 48 -> v.blue
               [] OTHER -> 0]

\* C6: after any sequence of schedule_output calls, flush writes each channel
\* that had a pending value exactly once, with the value of the latest
\* schedule_output for that channel, as exactly 64 zero-padded bytes; a
\* channel with nothing pending is not written; the pending-outputs map is
\* empty when flush returns.
C6_FlushWritesLatestOnce ==
    last.op = "flush" =>
        /\ DOMAIN outputs = {}
        /\ \A c \in Channels :
              Cardinality({i \in DOMAIN last.writes :
                              last.writes[i].channel = c})
                = IF last.pending[c].n > 0 THEN 1 ELSE 0
        /\ \A i \in DOMAIN last.writes :
              /\ Len(last.writes[i].data) = 64
              /\ last.writes[i].endpoint = 3
              /\ last.writes[i].data
                    = C6_Packet(last.writes[i].channel,
                                last.pending[last.writes[i].channel].v)

\* A flush of both channels, the lightbar value having replaced a different
\* one scheduled earlier, and the motors engaged.
C6_Witness ==
    /\ last.op = "flush"
    /\ Len(last.writes) = 2
    /\ last.pending["lightbar"].replaced
    /\ last.pending["feedback"].n = 2
    /\ motor_right = 255 /\ motor_left = 64

\* ---- C7 ----------------------------------------------------------------
\* C7: for every packet the decode primitive accepts, the CPADTOUCH bit of
\* the state input forwards is the negation of bit 7 of packet byte 33,
\* whatever CPADTOUCH was in the previous state.
C7_TouchBitIsNegatedHighBit ==
    (last.op = "input" /\ last.calls # << >>) =>
        /\ ("CPADTOUCH" \in last.calls[1].state.buttons) <=> (last.byte < 128)
        /\ last.calls[1].state = decoder.state

\* Bit 7 set while the previous state had CPADTOUCH: the forwarded state has
\* it clear.
C7_Witness ==
    /\ last.op = "input" /\ last.calls # << >>
    /\ last.byte = 128
    /\ "CPADTOUCH" \in last.calls[1].old_state.buttons
    /\ "CPADTOUCH" \notin last.calls[1].state.buttons
    /\ "A" \in last.calls[1].state.buttons

\* ---- C8 ----------------------------------------------------------------
\* C8: when the decode primitive reports failure, input calls no consumer,
\* changes neither the state nor the pending outputs and raises nothing;
\* when it reports success, the (old_state, state) pair is forwarded to the
\* registered consumer exactly once (and to nobody while none is registered).
C8_DropOrForwardOnce ==
    [][ (last'.op = "input" /\ packets' # packets) =>
            /\ last'.raised = ""
            /\ ~last'.accepted =>
                  /\ last'.calls = << >>
                  /\ UNCHANGED <<decoder, outputs, sched, motor_left,
                                 motor_right, tasks, feedback_cancel_task>>
            /\ (last'.accepted /\ mapper) =>
                  /\ Len(last'.calls) = 1
                  /\ last'.calls[1].old_state = decoder.state
                  /\ last'.calls[1].state = decoder'.state
                  /\ decoder'.old_state = decoder.state
            /\ (last'.accepted /\ ~mapper) => last'.calls = << >> ]_vars

\* A rejected packet, with a consumer registered, a decoded state and a
\* pending output in place.
C8_Witness ==
    /\ last.op = "input" /\ ~last.accepted
    /\ mapper
    /\ last.calls = << >>
    /\ decoder.state.buttons = {"A", "CPADTOUCH"}
    /\ "lightbar" \in DOMAIN outputs

\* ---- C9 ----------------------------------------------------------------
\* The icon reference carries the palette index k: the text between the last
\* "-" (or the start) and the last "." reads as the integer k.
C9_HasIndex(icon, k) ==
    \E dot \in DOMAIN icon :
        /\ icon[dot] = "."
        /\ \A j \in DOMAIN icon : j > dot => icon[j] # "."
        /\ \E start \in 1..(dot - 1) :
              /\ start = 1 \/ icon[start - 1] = "-"
              /\ \A j \in start..(dot - 1) : icon[j] # "-"
              /\ ParseInt(SubSeq(icon, start, dot - 1))
                    = [ok |-> TRUE, value |-> k]

\* C9 as stated: configure never raises and always enqueues exactly one
\* lightbar output; it uses ICON_COLORS[index] when the icon reference
\* carries an index of 0..6 and the default colour (0,0,1) in every other
\* case: absent, unparseable (no "." separator, non-numeric suffix), or out
\* of range.
C9_Original ==
    last.op = "configure" =>
        /\ last.raised = ""
        /\ "lightbar" \in DOMAIN outputs
        /\ sched["lightbar"].n = 1
        /\ \A k \in 0..6 :
              C9_HasIndex(last.icon, k) => last.color = ICON_COLORS[k + 1]
        /\ (\A k \in 0..6 : ~C9_HasIndex(last.icon, k))
              => last.color = <<0, 0, 10>>

\* ---- C10 ---------------------------------------------------------------
\* C10: for the chosen colour (a palette entry or the default) and every led
\* level of 0..100, each lightbar byte configure enqueues is the colour
\* channel * level/100 * 255 truncated to an integer, and lies in 0..255;
\* "controller-3.svg" at level 50 gives palette entry 3 at half intensity and
\* no icon at level 100 gives the default colour unscaled, (0,0,255).
C10_LightbarBytesTruncated ==
    (last.op = "configure" /\ last.raised = "" /\ last.led_level \in 0..100)
    =>
        LET o == outputs["lightbar"]
            bytes == <<o.red, o.green, o.blue>>
        IN  /\ \A i \in 1..3 :
                  /\ bytes[i] \in 0..255
                  /\ bytes[i] * 1000 <= last.color[i] * last.led_level * 255
                  /\ last.color[i] * last.led_level * 255 < (bytes[i] + 1) * 1000
            /\ (last.icon = <<"c", "o", "n", "t", "r", "o", "l", "l", "e", "r",
                              "-", "3", ".", "s", "v", "g">>
                /\ last.led_level = 50)
                  => (last.color = <<10, 10, 0>> /\ bytes = <<127, 127, 0>>)
            /\ (last.icon = << >> /\ last.led_level = 100)
                  => bytes = <<0, 0, 255>>

\* "controller-3.svg" at level 50: (127, 127, 0) is enqueued.
C10_Witness ==
    /\ last.op = "configure"
    /\ last.icon = <<"c", "o", "n", "t", "r", "o", "l", "l", "e", "r",
                     "-", "3", ".", "s", "v", "g">>
    /\ last.led_level = 50
    /\ outputs["lightbar"] = [shared |-> FALSE, red |-> 127, green |-> 127,
                              blue |-> 0]

\* ---- C11 ---------------------------------------------------------------
\* The callbacks of the two sensors.
SensorOps == {"_gyro_input", "_touchpad_input"}

\* The event makes the callback op replace its candidate state.
Replacing(op, event) ==
    IF op = "_gyro_input"
    THEN /\ event.type = "EV_ABS"
         /\ event.code \in {"ABS_RX", "ABS_RY", "ABS_RZ"}
    ELSE \/ /\ event.type = "EV_ABS"
            /\ event.code \in {"ABS_MT_POSITION_X", "ABS_MT_POSITION_Y"}
         \/ /\ event.type \notin {"EV_ABS", "EV_SYN"}
            /\ event.code \in {"BTN_LEFT", "BTN_TOUCH"}

\* The positions of the replacing events of the last batch.
Replacements ==
    {i \in 1..Len(last.events) : Replacing(last.op, last.events[i])}

\* The last position of the last batch whose event satisfies P, or 0.
LastWhere(P(_)) ==
    LET at == {i \in 1..Len(last.events) : P(last.events[i])}
    IN IF at = {} THEN 0 ELSE CHOOSE i \in at : \A j \in at : j <= i

\* The value a field takes after the last batch: that of the last event
\* writing it, or the one it had.
Abs(n) == IF n >= 0 THEN n ELSE -n

\* q is v / GyroDen truncated toward zero.
IsScaled(q, v) ==
    /\ q * v >= 0
    /\ GyroDen * Abs(q) <= Abs(v)
    /\ Abs(v) < GyroDen * (Abs(q) + 1)

C11_Gyro(axis, code) ==
    LET P(e) == e.type = "EV_ABS" /\ e.code = code
    IN IF LastWhere(P) = 0
       THEN state[axis] = last.old[axis]
       ELSE IsScaled(state[axis], last.events[LastWhere(P)].value)

C11_Bit(bit, code) ==
    LET P(e) == e.type = "EV_KEY" /\ e.code = code
    IN bit \in state.buttons <=>
         IF LastWhere(P) = 0 THEN bit \in last.old.buttons
         ELSE last.events[LastWhere(P)].value = 1

C11_Pad(field, code, Scale(_)) ==
    LET P(e) == \/ e.type = "EV_ABS" /\ e.code = code
                \/ e.type = "EV_KEY" /\ e.code = "BTN_TOUCH" /\ e.value # 1
        e == last.events[LastWhere(P)]
    IN IF LastWhere(P) = 0 THEN state[field] = last.old[field]
       ELSE IF e.type = "EV_KEY" THEN state[field] = 0
       ELSE state[field] = Scale(e.value)

\* C11: one invocation of _gyro_input or _touchpad_input sends at most one
\* (old, new) pair to the mapper, however many events its batch holds: one
\* pair when an event of the batch replaced the candidate state (and a mapper
\* is set and the read did not fail), none when no event did.  When the pair
\* is sent, self._state is the candidate with the effects of every event of
\* the batch, and the pair is (the state before, self._state).
C11_OnePairPerBatch ==
    last.op \in SensorOps =>
        /\ Len(last.calls) <= 1
        /\ mapper /\ ~last.ioerror =>
                (Len(last.calls) = 1 <=> Replacements # {})
        /\ Replacements = {} => last.calls = << >> /\ state = last.old
        /\ Len(last.calls) = 1 =>
            /\ last.calls[1] = [old_state |-> last.old, state |-> state]
            /\ IF last.op = "_gyro_input"
               THEN /\ C11_Gyro("gpitch", "ABS_RX")
                    /\ C11_Gyro("gyaw", "ABS_RY")
                    /\ C11_Gyro("groll", "ABS_RZ")
                    /\ state.buttons = last.old.buttons
                    /\ state.cpad_x = last.old.cpad_x
                    /\ state.cpad_y = last.old.cpad_y
               ELSE /\ C11_Bit("CPADTOUCH", "BTN_TOUCH")
                    /\ C11_Bit("CPADPRESS", "BTN_LEFT")
                    /\ C11_Pad("cpad_x", "ABS_MT_POSITION_X", TouchX)
                    /\ C11_Pad("cpad_y", "ABS_MT_POSITION_Y", TouchY)
                    /\ state.gpitch = last.old.gpitch
                    /\ state.gyaw = last.old.gyaw
                    /\ state.groll = last.old.groll

\* A batch with two replacing events was read and one pair was sent.
C11_Witness ==
    /\ last.op \in SensorOps
    /\ Cardinality(Replacements) >= 2
    /\ Len(last.calls) = 1
    /\ state # last.old

\* ---- C12 ---------------------------------------------------------------
\* C12: when the read of a batch raises IOError, also after events were
\* read and applied to the candidate, the callback returns without raising,
\* sends nothing to the mapper and leaves self._state as it was.
C12_ReadErrorDropsBatch ==
    (last.op \in SensorOps /\ last.ioerror) =>
        /\ last.raised = ""
        /\ last.calls = << >>
        /\ state = last.old

\* The read failed after an event had replaced the candidate, a mapper being
\* set and the state being one that an earlier batch had changed.
C12_Witness ==
    /\ last.op \in SensorOps
    /\ last.ioerror
    /\ Replacements # {}
    /\ mapper
    /\ state # NoInputs

\* ---- C13 ---------------------------------------------------------------
\* The event reports that the finger left the pad.
IsRelease(e) == e.type = "EV_KEY" /\ e.code = "BTN_TOUCH" /\ e.value = 0

\* The last batch, read by _touchpad_input without error, held a release.
Released ==
    /\ last.op = "_touchpad_input"
    /\ ~last.ioerror
    /\ LastWhere(IsRelease) > 0

\* The stored state is the one sent, if any was sent.
StoredIsSent == \A i \in 1..Len(last.calls) : last.calls[i].state = state

\* C13 as stated: whenever the touchpad callback processes a release event
\* (BTN_TOUCH, value 0), the state it stores and sends for that batch has
\* CPADTOUCH clear and cpad_x = cpad_y = 0, whatever the last reported
\* position and whatever the other events of the batch.
C13_Original ==
    Released =>
        /\ "CPADTOUCH" \notin state.buttons
        /\ state.cpad_x = 0
        /\ state.cpad_y = 0
        /\ StoredIsSent

\* An event of the given code and type follows the last release of the batch.
FollowsRelease(type, code, values) ==
    \E i \in (LastWhere(IsRelease) + 1)..Len(last.events) :
        /\ last.events[i].type = type
        /\ last.events[i].code = code
        /\ last.events[i].value \in values

\* C13, amended: the events of a batch are applied in order, so the release
\* resets what no later event of the same batch writes again.  After a batch
\* with a release, CPADTOUCH is clear unless a BTN_TOUCH press follows the
\* release in the batch, cpad_x is 0 unless an ABS_MT_POSITION_X event
\* follows it, and cpad_y is 0 unless an ABS_MT_POSITION_Y event follows it,
\* whatever the last reported position and whatever the events before the
\* release; the state stored is the state sent.
C13_ReleaseResetsUntilRewritten ==
    Released =>
        /\ ~FollowsRelease("EV_KEY", "BTN_TOUCH", {1}) =>
                "CPADTOUCH" \notin state.buttons
        /\ ~FollowsRelease("EV_ABS", "ABS_MT_POSITION_X", Int) =>
                state.cpad_x = 0
        /\ ~FollowsRelease("EV_ABS", "ABS_MT_POSITION_Y", Int) =>
                state.cpad_y = 0
        /\ FollowsRelease("EV_KEY", "BTN_TOUCH", {1}) =>
                "CPADTOUCH" \in state.buttons
        /\ FollowsRelease("EV_ABS", "ABS_MT_POSITION_X", Int) =>
                state.cpad_x # 0
        /\ StoredIsSent

\* A touched pad with a reported position is released by a batch that first
\* reports another position, and the reset state is sent.
C13_Witness ==
    /\ Released
    /\ "CPADTOUCH" \in last.old.buttons
    /\ last.old.cpad_x # 0
    /\ last.old.cpad_y # 0
    /\ last.events[1].code = "ABS_MT_POSITION_X"
    /\ LastWhere(IsRelease) = Len(last.events)
    /\ Len(last.calls) = 1
    /\ state.cpad_x = 0 /\ state.cpad_y = 0

\* ---- C14 ---------------------------------------------------------------
\* The devices of the sequence, as a set.
Range(seq) == {seq[i] : i \in 1..Len(seq)}

\* The device shares the physical-address prefix of the primary device.
SharesPrefix(device, primary) ==
    StartsWith(device.phys, SplitFirst(primary.phys))

\* The last call of make_evdev_device enumerated the gamepad, its motion
\* sensors and its touchpad, and besides them only devices of another
\* physical address that are no gamepad.
TripleAndStrangers ==
    /\ last.op = "bluetooth"
    /\ {Gamepad, Motion, Touchpad} \subseteq Range(last.devices)
    /\ Range(last.devices) \subseteq {Gamepad, Motion, Touchpad, Other4,
                                      Other6}

\* C14: make_evdev_device chooses the gyro and the touchpad only among the
\* devices whose phys starts with the prefix of the primary (8-axis) device:
\* in every enumeration order, three devices with 8, 6 and 4 axes sharing a
\* prefix make one DS5EvdevController, and a further device of another
\* prefix is ignored.
C14_Original ==
    /\ (last.op = "bluetooth" /\ last.made # << >>) =>
            /\ SharesPrefix(evdev.roles.gyro, evdev.roles.controllerdevice)
            /\ SharesPrefix(evdev.roles.touchpad,
                            evdev.roles.controllerdevice)
    /\ TripleAndStrangers =>
            /\ last.made = <<"DS5EvdevController">>
            /\ evdev.roles = [controllerdevice |-> Gamepad, gyro |-> Motion,
                              touchpad |-> Touchpad]

\* ---- C15 ---------------------------------------------------------------
\* The roles make_evdev_device found a device for.
Found == {r \in {"controllerdevice", "gyro", "touchpad"} :
            last.roles[r] # NoDevice}

\* The enumeration holds a device of the signature of the role.
Offers(role) ==
    \E d \in Range(last.devices) :
        IF role = "controllerdevice" THEN d.axes = 8
        ELSE IF role = "gyro" THEN d.axes = 6 /\ ~d.mt
        ELSE d.axes = 4 \/ (d.axes = 6 /\ d.mt)

\* C15: make_evdev_device constructs a DS5EvdevController exactly when it
\* found a device for each of the three roles; the controller then holds
\* these devices and has grabbed the gyro and the touchpad.  When a role is
\* left without a device (as it is when no device of its signature was
\* enumerated) it constructs nothing, grabs nothing, returns no controller
\* and raises nothing.
C15_AllRolesOrNothing ==
    last.op = "bluetooth" =>
        /\ last.raised = ""
        /\ last.made = <<"DS5EvdevController">> <=>
                Found = {"controllerdevice", "gyro", "touchpad"}
        /\ \A role \in {"controllerdevice", "gyro", "touchpad"} :
                ~Offers(role) => last.made = << >>
        /\ IF last.made = << >>
           THEN evdev = NoEvdev
           ELSE /\ evdev.constructed
                /\ evdev.roles = last.roles
                /\ evdev.grabbed = Sensors

\* Four devices were enumerated and a controller was constructed.
C15_Witness ==
    /\ last.op = "bluetooth"
    /\ Len(last.devices) = 4
    /\ last.made = <<"DS5EvdevController">>
    /\ evdev.grabbed = Sensors

\* ---- C16 ---------------------------------------------------------------
\* C16: a hotplug match constructs at most one adapter and never both kinds.
\* When the transport is acquired it constructs a DS5Controller only and
\* does not look for evdev devices.  When the acquisition fails it
\* constructs no DS5Controller, and calls make_evdev_device exactly when
\* evdev is available (HAVE_EVDEV); without evdev it constructs nothing.
C16_OneAdapterPerMatch ==
    [][(last'.op = "hotplug" /\ drv'.matches # drv.matches) =>
        /\ Len(last'.made) <= 1
        /\ last'.acquired =>
            /\ last'.made = <<"DS5Controller">>
            /\ drv'.hid = drv.hid + 1
            /\ ~last'.attempted
            /\ evdev' = evdev
        /\ ~last'.acquired =>
            /\ drv'.hid = drv.hid
            /\ last'.attempted <=> drv.HAVE_EVDEV
            /\ last'.made \in {<< >>, <<"DS5EvdevController">>}
            /\ last'.made = << >> <=> evdev' = evdev
            /\ ~drv.HAVE_EVDEV => last'.made = << >>
            /\ last'.attempted /\ Found' = {"controllerdevice", "gyro",
                                            "touchpad"}
                    => last'.made = <<"DS5EvdevController">>]_vars

\* The acquisition failed where only hiddrv is enabled, and the fallback
\* constructed a DS5EvdevController.
C16_Witness ==
    /\ last.op = "hotplug"
    /\ ~last.acquired
    /\ ~drv.evdevdrv
    /\ drv.hid = 0
    /\ last.made = <<"DS5EvdevController">>
    /\ evdev.constructed /\ ~evdev.closed

\* ---- C17 ---------------------------------------------------------------
\* C17: for a DS5EvdevController that was constructed (grabbing its gyro and
\* its touchpad) and then closed, ungrab has been called on every device it
\* had grabbed by the time close() returns, whatever fails while another
\* device is released, and close() raises nothing.
C17_Original ==
    last.op = "close" =>
        /\ last.raised = ""
        /\ evdev.closed
        /\ last.grabbed \subseteq evdev.ungrab

\* ---- C18 ---------------------------------------------------------------
\* The state after the first k batches of the gyro alone, from the idle
\* state, and after the first k batches of the touchpad alone.
RECURSIVE GyroAlone(_)
GyroAlone(k) ==
    IF k = 0 THEN NoInputs
    ELSE IF feed.gyro[k].ioerror THEN GyroAlone(k - 1)
    ELSE GyroRead([state |-> GyroAlone(k - 1), replaced |-> FALSE],
                  feed.gyro[k].events).state

RECURSIVE TouchpadAlone(_)
TouchpadAlone(k) ==
    IF k = 0 THEN NoInputs
    ELSE IF feed.touchpad[k].ioerror THEN TouchpadAlone(k - 1)
    ELSE TouchpadRead([state |-> TouchpadAlone(k - 1), replaced |-> FALSE],
                      feed.touchpad[k].events).state

PadBits == {"CPADPRESS", "CPADTOUCH"}

\* C18: in whatever order the loop runs the callbacks of the gyro, of the
\* touchpad and of the main device, each sensor's batches being read in its
\* own order, self._state is the same: its gpitch, gyaw and groll are what
\* the gyro batches read so far make of them, its cpad_x, cpad_y and its
\* CPADPRESS and CPADTOUCH bits what the touchpad batches read so far make
\* of them.  The gyro callback changes nothing but gpitch, gyaw and groll,
\* the touchpad callback nothing but cpad_x, cpad_y and the two pad bits,
\* and the main device's button stays as it was last written.
C18_SensorsCommute ==
    /\ state.gpitch = GyroAlone(feed.g).gpitch
    /\ state.gyaw = GyroAlone(feed.g).gyaw
    /\ state.groll = GyroAlone(feed.g).groll
    /\ state.cpad_x = TouchpadAlone(feed.t).cpad_x
    /\ state.cpad_y = TouchpadAlone(feed.t).cpad_y
    /\ state.buttons \cap PadBits = TouchpadAlone(feed.t).buttons
    /\ last.op = "_gyro_input" =>
            /\ state.buttons = last.old.buttons
            /\ state.cpad_x = last.old.cpad_x
            /\ state.cpad_y = last.old.cpad_y
    /\ last.op = "_touchpad_input" =>
            /\ state.buttons \ PadBits = last.old.buttons \ PadBits
            /\ state.gpitch = last.old.gpitch
            /\ state.gyaw = last.old.gyaw
            /\ state.groll = last.old.groll
    /\ last.op = "input_main" =>
            /\ "A" \in state.buttons <=> last.pressed
            /\ [state EXCEPT !.buttons = {}] =
                    [last.old EXCEPT !.buttons = {}]
            /\ state.buttons \cap PadBits = last.old.buttons \cap PadBits

\* Both sensors delivered two batches, the touchpad's last one after the
\* gyro had written and the main device's button was pressed.
C18_Witness ==
    /\ feed.g = 2 /\ feed.t = 2
    /\ last.op = "_touchpad_input"
    /\ "A" \in state.buttons
    /\ last.old.gpitch # 0
    /\ state.cpad_x # 0
    /\ state.buttons \cap PadBits # {}
    /\ state # last.old

\* ---- C20 ---------------------------------------------------------------
\* The axis codes of GYRO_MAP that name no axis.
Unmapped == {code \in DOMAIN GYRO_MAP : GYRO_MAP[code].axis = NoAxis}

\* The axis codes among the EV_ABS events of the last batch.
AxisCodes ==
    {last.events[i].code : i \in {j \in 1..Len(last.events) :
                                    last.events[j].type = "EV_ABS"}}

\* A batch of unmapped axis codes changes nothing and sends nothing; a batch
\* of one event of another axis code replaces the axis GYRO_MAP names by the
\* event's value times the factor, truncated, and nothing else.
GyroMapApplied ==
    last.op = "_gyro_input" =>
        /\ AxisCodes \subseteq Unmapped =>
                state = last.old /\ last.calls = << >>
        /\ (Len(last.events) = 1 /\ AxisCodes # {}
                /\ ~(AxisCodes \subseteq Unmapped)) =>
            LET e == last.events[1]
                axis == GYRO_MAP[e.code].axis
            IN /\ axis \in {"gpitch", "gyaw", "groll"}
               /\ IsScaled(state[axis], e.value)
               /\ [state EXCEPT ![axis] = 0] = [last.old EXCEPT ![axis] = 0]
               /\ mapper => last.calls = << [old_state |-> last.old,
                                             state |-> state] >>

\* C20 as stated: exactly two axis codes of GYRO_MAP are unmapped
\* placeholders, which change no state and send nothing; every other axis
\* code replaces one of gpitch, gyaw, groll by the event's value times the
\* factor, truncated to an integer.
C20_Original ==
    (last.op = "_gyro_input" /\ AxisCodes # {}) =>
        /\ Cardinality(Unmapped) = 2
        /\ GyroMapApplied

\* C20, amended: GYRO_MAP has three unmapped placeholders, ABS_X, ABS_Y and
\* ABS_Z; the three other codes, ABS_RX, ABS_RY and ABS_RZ, replace gpitch,
\* gyaw and groll.
C20_ThreePlaceholders ==
    /\ Unmapped = {"ABS_X", "ABS_Y", "ABS_Z"}
    /\ DOMAIN GYRO_MAP \ Unmapped = {"ABS_RX", "ABS_RY", "ABS_RZ"}
    /\ GyroMapApplied

\* A negative ABS_RZ value was scaled and sent, an earlier batch having set
\* gyaw.
C20_Witness ==
    /\ last.op = "_gyro_input"
    /\ last.events = << Ev("EV_ABS", "ABS_RZ", -150) >>
    /\ state.groll = -1
    /\ last.old.groll = 0
    /\ last.old.gyaw = 2
    /\ Len(last.calls) = 1

\* ---- C19 ---------------------------------------------------------------
\* The clear task of command id has run, both motors are 0, and the flush
\* that just ran wrote a feedback packet whose motor bytes are 0.
ZeroPacketWritten(id) ==
    /\ id \in DOMAIN tasks
    /\ tasks[id].fired
    /\ motor_left = 0 /\ motor_right = 0
    /\ last.op = "flush"
    /\ \E i \in DOMAIN last.writes :
        /\ last.writes[i].channel = "feedback"
        /\ last.writes[i].data[OFF_motor_right + 1] = 0
        /\ last.writes[i].data[OFF_motor_left + 1] = 0
        /\ Len(last.writes[i].data) = PacketSize

\* C19: on a loop that runs its due timers and flushes, the motors are
\* cleared after the last feedback command of a finite sequence: once
\* command id is issued, either a later command follows, or its clear task
\* runs and sets both motors to 0, and a feedback packet with both motor
\* bytes 0 is written.
C19_MotorsEventuallyCleared ==
    \A id \in 1..MaxCmds :
        (last.op = "feedback" /\ Len(tasks) = id)
            ~> (Len(tasks) > id \/ ZeroPacketWritten(id))

\* The last command engaged both motors; its clear task ran three clock
\* steps later and the zero packet was written.
C19_Witness ==
    /\ Len(tasks) = MaxCmds
    /\ ZeroPacketWritten(MaxCmds)
    /\ tasks[MaxCmds].issued < tasks[MaxCmds].firedAt
    /\ tasks[MaxCmds].delay > MinDuration
    /\ tasks[1].cancelled

\* ---- C21 ---------------------------------------------------------------
\* C21: in every pair a sensor callback sends, old_state is self._state as it
\* was when the callback started and state is self._state when it returns.
\* So the old_state of a pair is the very object sent as state by the pair
\* before it, unless the main device replaced self._state in between; and
\* the object sent, while it is self._state, keeps the values it was sent
\* with.
C21_PairsChain ==
    /\ emitted.same => emitted.any /\ state = emitted.current
    /\ (last.op \in SensorOps /\ last.calls # << >>) =>
        /\ last.calls[1].old_state = last.old
        /\ last.calls[1].state = state
        /\ emitted = Emission(state)
        /\ (last.prior.any /\ ~last.prior.main) =>
                /\ last.prior.same
                /\ last.calls[1].old_state = last.prior.current

\* A pair was sent whose old_state is the state of the pair before it, both
\* callbacks having changed the state.
C21_Witness ==
    /\ last.op = "_touchpad_input"
    /\ last.calls # << >>
    /\ last.prior.any /\ last.prior.same /\ ~last.prior.main
    /\ last.prior.current.gpitch # 0
    /\ state # last.old
    /\ "A" \in state.buttons

\* ---- C22 ---------------------------------------------------------------
\* The feedback packets the last flush wrote.
FeedbackWrites ==
    {i \in DOMAIN last.writes : last.writes[i].channel = "feedback"}

\* The latest feedback command and its clear task both ran since the flush
\* before the last one.  The clear task of the latest command is the last
\* call of schedule_output for the channel (a later command would be the
\* latest), and the command itself the call before it (the tasks of earlier
\* commands were cancelled by it): two calls since the flush before are
\* these two.
CommandAndClearUnflushed ==
    /\ last.op = "flush"
    /\ last.pending["feedback"].n = 2
    /\ Len(tasks) > 0
    /\ tasks[Len(tasks)].fired

\* C22: the "feedback" entry of self._outputs is always the one shared
\* self._feedback_output record, so the motor bytes flush writes are the
\* motor values at the time of the flush.  When a feedback command and its
\* clear task both run between two flushes, the second flush writes one
\* feedback packet, with both motor bytes 0: the motor values of that
\* command are not written.
C22_FlushReadsSharedRecord ==
    /\ "feedback" \in DOMAIN outputs =>
            outputs["feedback"] = FeedbackRef /\ outputs["feedback"].shared
    /\ last.op = "flush" =>
        \A i \in FeedbackWrites :
            /\ last.writes[i].data[OFF_motor_right + 1] = motor_right
            /\ last.writes[i].data[OFF_motor_left + 1] = motor_left
    /\ CommandAndClearUnflushed =>
        /\ Cardinality(FeedbackWrites) = 1
        /\ \A i \in FeedbackWrites :
            /\ last.writes[i].data[OFF_motor_right + 1] = 0
            /\ last.writes[i].data[OFF_motor_left + 1] = 0

\* The only command engaged both motors and was cleared with no flush in
\* between: the flush wrote one feedback packet, with zero motors.
C22_Witness ==
    /\ CommandAndClearUnflushed
    /\ Len(tasks) = 1
    /\ tasks[1].delay > 0
    /\ tasks[1].firedAt >= tasks[1].issued + tasks[1].delay
    /\ Cardinality(FeedbackWrites) = 1

\* ---- C23 ---------------------------------------------------------------
\* The motors a step switches off (engaged before, zero after).
SwitchedOff ==
    (IF motor_left # 0 /\ motor_left' = 0 THEN {"LEFT"} ELSE {})
        \cup (IF motor_right # 0 /\ motor_right' = 0 THEN {"RIGHT"} ELSE {})

\* The motors feedback(position, ..) assigns.
Addressed(position) ==
    CASE position = "LEFT" -> {"LEFT"}
      [] position = "RIGHT" -> {"RIGHT"}
      [] position = "BOTH" -> {"LEFT", "RIGHT"}

\* The motors whose output for the amplitude is 0: int(a/0x8000 * 0x80) for
\* the left motor, int(a/0x8000 * 0xff) for the right.
ScalesToZero(amplitude) ==
    (IF 128 * amplitude < 32768 THEN {"LEFT"} ELSE {})
        \cup (IF 255 * amplitude < 32768 THEN {"RIGHT"} ELSE {})

\* The deadline of the pending clear is the most recent command's alone.
C23_Deadline ==
    /\ \A i \in DOMAIN tasks' :
            Pending(tasks'[i]) =>
                /\ i = Len(tasks') /\ feedback_cancel_task' = i
                /\ tasks'[i].time = tasks'[i].issued + tasks'[i].delay
    /\ last'.op = "feedback" /\ tasks' # tasks =>
            LET t == tasks'[Len(tasks')]
                pc == last'.period * last'.count
            IN  /\ Pending(t) /\ t.issued = now
                /\ t.time = now + (IF 50 * pc < PeriodNorm
                                   THEN TicksPerSecond \div 50
                                   ELSE pc * (TicksPerSecond \div PeriodNorm))

\* A motor is switched off by the clear of the most recent command, which
\* runs no earlier than that command's deadline and zeroes both motors.
C23_ClearedAtDeadline ==
    /\ last'.op = "clear_feedback" /\ last'.id = Len(tasks)
    /\ now >= tasks[Len(tasks)].time
    /\ tasks'[Len(tasks)].fired
    /\ motor_left' = 0 /\ motor_right' = 0

\* C23 as stated: the deadline of the pending clear task is that of the most
\* recent feedback command alone; and every motor engaged by an earlier
\* command stays engaged until the clear of the most recent command, so no
\* command switches a motor off and only that clear does.
C23_Original ==
    [][ /\ C23_Deadline
        /\ last'.op = "feedback" /\ tasks' # tasks => SwitchedOff = {}
        /\ SwitchedOff # {} => C23_ClearedAtDeadline
      ]_vars

\* C23: the deadline of the pending clear task is that of the most recent
\* feedback command alone, its issue time plus max(0.02 s,
\* period*count/0x10000 s), whatever clears earlier commands left pending;
\* a motor engaged by an earlier command keeps its value through a command
\* that does not address it, and is switched off only by the clear of the
\* most recent command (no earlier than that command's deadline, zeroing
\* both motors) or by a command that addresses it with an amplitude whose
\* output is 0, at the time that command is issued.
C23_LatestCommandSetsDeadline ==
    [][ /\ C23_Deadline
        /\ last'.op = "feedback" /\ tasks' # tasks =>
            /\ SwitchedOff \subseteq
                    Addressed(last'.position) \cap ScalesToZero(last'.amplitude)
            /\ "LEFT" \notin Addressed(last'.position)
                    => motor_left' = motor_left
            /\ "RIGHT" \notin Addressed(last'.position)
                    => motor_right' = motor_right
        /\ SwitchedOff # {} /\ last'.op # "feedback" => C23_ClearedAtDeadline
      ]_vars

\* A RIGHT command due late, then a LEFT command due earlier: the right motor
\* is still engaged and the one pending deadline is the LEFT command's,
\* before the RIGHT command's own.
C23_Witness ==
    /\ last.op = "feedback" /\ last.position = "LEFT"
    /\ Len(tasks) = 2
    /\ motor_right # 0 /\ motor_left # 0
    /\ tasks[1].cancelled /\ Pending(tasks[2])
    /\ tasks[2].time < tasks[1].time
    /\ tasks[2].issued > tasks[1].issued
    /\ tasks[2].delay < tasks[1].delay

====
